---- MODULE Spec2Model ----
(***************************************************************************)
(* Model of src/app.py: the Streamlit breakout-analysis tool.              *)
(*                                                                         *)
(*   get_stock_data        lines 10-33                                     *)
(*   analyze_breakouts     lines 35-96                                     *)
(*   create_summary_stats  lines 98-128                                    *)
(*   "Generate Report"     lines 154-194                                   *)
(*                                                                         *)
(* Numbers.  A pandas/numpy float is a record: a rational n/d (d > 0),     *)
(* NaN, or a signed infinity.  Arithmetic is exact on the rationals, and   *)
(* division by zero yields NaN or an infinity as numpy does (it does not   *)
(* raise).  Prices are held in thousandths of a currency unit, volumes in  *)
(* shares, Timestamps in ticks (TicksPerDay ticks to a calendar day, a     *)
(* daily bar sits at midnight).  Rows are numbered from 1 here; pandas     *)
(* position p is row p + 1.                                                *)
(***************************************************************************)
EXTENDS Integers, Sequences, FiniteSets

VARIABLES
    pc,                \* position of the script / of the running function
    ret,               \* where analyze_breakouts returns to
    start_date,        \* st.date_input 'Start Date' (a calendar day)
    end_date,          \* st.date_input 'End Date'
    volume_threshold,  \* st.number_input, percent, >= 100
    price_threshold,   \* st.number_input, percent, >= 0
    holding_period,    \* st.number_input, >= 1
    df,                \* the DataFrame: [kind, rows]; kind "None" after a failed fetch
    Volume_MA20,       \* df['Volume_MA20'] (<<>> while the column is absent)
    Daily_Return,      \* df['Daily_Return']
    Volume_Ratio,      \* df['Volume_Ratio']
    breakout_days,     \* df[breakout_condition].index: the labels of the flagged rows
    k,                 \* the for loop's position in breakout_days
    breakout_results,  \* the list of trade dicts being built
    results_df,        \* what analyze_breakouts returned
    out,               \* what Streamlit has shown: st.error, st.warning, widgets
    summary_stats,     \* what create_summary_stats returned
    calls,             \* how many calls of analyze_breakouts have returned
    first_results,     \* the first call's return value (two-call harness)
    df_orig            \* the rows as fetched (two-call harness)

vars == <<pc, ret, start_date, end_date, volume_threshold, price_threshold,
          holding_period, df, Volume_MA20, Daily_Return, Volume_Ratio,
          breakout_days, k, breakout_results, results_df, out, summary_stats,
          calls, first_results, df_orig>>

----------------------------------------------------------------------------
(* Bounds of the model and the program's constants.                        *)

MaxHold == 2          \* holding_period ranges over 1..MaxHold
MaxSkip == 2          \* the provider's history may lack up to MaxSkip leading bars
TailLen == 2          \* the last TailLen bars of a series take arbitrary values
MaxTrades == 3        \* length of a trade list handed to create_summary_stats
TicksPerDay == 2      \* resolution of a Timestamp

Window == 20          \* rolling(window=20)
LookbackDays == 30    \* timedelta(days=30)

\* the values the inputs and the provider's bars range over: percent, calendar
\* days, shares, thousandths of a currency unit, hundredths of a percent
VolumeThresholds == {100, 200}
PriceThresholds == {0, 2}
StartDates == {35}
WindowDays == {1}
BaseVolumes == {0, 1}
SpikeVolumes == {5}
Closes == {10000, 10200, 10506}
FlatClose == CHOOSE c \in Closes : \A e \in Closes : c <= e
ReturnChoices == {-250, 0, 333, 500}

----------------------------------------------------------------------------
(* Floats.                                                                 *)

RECURSIVE Gcd(_, _)
Gcd(a, b) == IF b = 0 THEN a ELSE Gcd(b, a % b)

Abs(n) == IF n < 0 THEN -n ELSE n

\* the rational n/d (d > 0) in lowest terms
Num(n, d) ==
    LET g == Gcd(Abs(n), d)
    IN  [t |-> "num", n |-> n \div g, d |-> d \div g]
NaN == [t |-> "nan", n |-> 0, d |-> 1]
Inf(s) == [t |-> "inf", n |-> s, d |-> 1]

Sign(n) == IF n > 0 THEN 1 ELSE IF n < 0 THEN -1 ELSE 0

\* a / b as numpy divides floats: x/0 is NaN or an infinity, never an error
Div(a, b) ==
    IF a.t = "nan" \/ b.t = "nan" THEN NaN
    ELSE IF a.t = "inf" THEN (IF b.t = "inf" THEN NaN
                              ELSE Inf(a.n * (IF b.n < 0 THEN -1 ELSE 1)))
    ELSE IF b.t = "inf" THEN Num(0, 1)
    ELSE IF b.n = 0 THEN (IF a.n = 0 THEN NaN ELSE Inf(Sign(a.n)))
    ELSE IF b.n > 0 THEN Num(a.n * b.d, a.d * b.n)
    ELSE Num(-(a.n * b.d), a.d * (-b.n))

Sub(a, b) ==
    IF a.t = "nan" \/ b.t = "nan" THEN NaN
    ELSE IF a.t = "inf" THEN (IF b.t = "inf" /\ b.n = a.n THEN NaN ELSE a)
    ELSE IF b.t = "inf" THEN Inf(-b.n)
    ELSE Num(a.n * b.d - b.n * a.d, a.d * b.d)

Times(a, c) ==
    IF a.t = "nan" THEN NaN
    ELSE IF a.t = "inf" THEN (IF c = 0 THEN NaN ELSE Inf(a.n * Sign(c)))
    ELSE Num(a.n * c, a.d)

\* a > pct/100; any comparison with NaN is False
GtPct(a, pct) ==
    IF a.t = "nan" THEN FALSE
    ELSE IF a.t = "inf" THEN a.n > 0
    ELSE a.n * 100 > pct * a.d

\* round(x, 2): to the nearest hundredth, ties to the even one; NaN and the
\* infinities round to themselves
Round2(a) ==
    IF a.t # "num" THEN a
    ELSE LET m == a.n * 100
             q == m \div a.d
             r == m % a.d
         IN  Num(IF 2 * r < a.d THEN q
                 ELSE IF 2 * r > a.d THEN q + 1
                 ELSE IF q % 2 = 0 THEN q ELSE q + 1, 100)

\* a rounded value in hundredths
Hundredths(a) == (a.n * 100) \div a.d

Price(c) == Num(c, 1000)

Min(a, b) == IF a < b THEN a ELSE b

----------------------------------------------------------------------------
(* The price provider: stock.history(start=adjusted_start, end=end_date).  *)
(* One bar per trading day d with adjusted_start <= d < end_date, in       *)
(* ascending order.  A recently listed ticker lacks leading bars; a bar's  *)
(* row may come back twice (the same Timestamp on two rows).               *)

IsTradingDay(d) == d % 7 < 5

Timestamp(d) == d * TicksPerDay

\* Timestamp.strftime('%Y-%m-%d'): the calendar day, the time of day dropped
strftime(ts) == ts \div TicksPerDay

\* the elements of a finite set of integers in ascending order
Ascending(S) ==
    [i \in 1..Cardinality(S) |->
        CHOOSE d \in S : Cardinality({e \in S : e < d}) = i - 1]

TradingDays(lo, hi) == Ascending({d \in lo..(hi - 1) : IsTradingDay(d)})

Bar(ts, c, v) ==
    [Date |-> ts, Open |-> c, High |-> c, Low |-> c, Close |-> c, Volume |-> v]

\* the rows for the days `days`: base volume and close everywhere but on the
\* last Len(tail) rows, which take the tail's values; row dup (0: none)
\* carries the Timestamp of the row before it
Frame(days, base, tail, dup) ==
    LET n == Len(days)
        t == Len(tail)
    IN  [i \in 1..n |->
            LET ts == Timestamp(days[IF i = dup /\ i > 1 THEN i - 1 ELSE i])
            IN  IF i > n - t
                THEN Bar(ts, tail[i - (n - t)].c, tail[i - (n - t)].v)
                ELSE Bar(ts, FlatClose, base)]

TailBars(base) == [v : {base} \cup SpikeVolumes, c : Closes]

Tails(base, n) == [1..Min(TailLen, n) -> TailBars(base)]

\* every non-empty history the provider may return for [lo, hi)
Histories(lo, hi) ==
    LET all == TradingDays(lo, hi)
    IN  UNION { LET days == SubSeq(all, skip + 1, Len(all))
                    n == Len(days)
                IN  UNION { { Frame(days, base, tail, dup) :
                                tail \in Tails(base, n),
                                dup \in {0} \cup ((n - Min(TailLen, n) + 1)..n) }
                          : base \in BaseVolumes }
              : skip \in 0..Min(MaxSkip, Len(all) - 1) }

----------------------------------------------------------------------------
(* The Feature columns of analyze_breakouts, lines 48-59.                  *)

RECURSIVE SumVolume(_, _, _)
SumVolume(rows, lo, hi) ==
    IF lo > hi THEN 0 ELSE rows[hi].Volume + SumVolume(rows, lo, hi - 1)

\* a rolling mean that averages a partial window (min_periods = 1)
RollingMean_partial(rows, i) ==
    IF i < Window THEN Num(SumVolume(rows, 1, i), i)
    ELSE Num(SumVolume(rows, i - Window + 1, i), Window)

\* df['Volume'].rolling(window=20).mean(): NaN until 20 rows are in the window
RollingMean(rows, i) ==
    IF i < Window THEN NaN
    ELSE Num(SumVolume(rows, i - Window + 1, i), Window)

\* df['Close'].pct_change(): NaN on the first row
PctChange(rows, i) ==
    IF i = 1 THEN NaN
    ELSE Sub(Div(Price(rows[i].Close), Price(rows[i - 1].Close)), Num(1, 1))

\* df['Volume'] / df['Volume_MA20']
VolumeRatio(rows, ma, i) == Div(Num(rows[i].Volume, 1), ma[i])

\* (df['Volume_Ratio'] > volume_threshold/100) & (df['Daily_Return'] > price_threshold/100)
breakout_condition(ratio, dret, vt, pt, i) ==
    GtPct(ratio[i], vt) /\ GtPct(dret[i], pt)

\* the elements of seq at the positions satisfying keep, in order
RECURSIVE SelectRows(_, _, _)
SelectRows(rows, flags, n) ==
    IF n = 0 THEN <<>>
    ELSE LET rest == SelectRows(rows, flags, n - 1)
         IN  IF flags[n] THEN Append(rest, rows[n].Date) ELSE rest

----------------------------------------------------------------------------
(* The trade of one flagged row, lines 69-91.                              *)

\* df.index.get_loc(label): a position when the label is on one row only,
\* a slice (or a mask) when it is on several
get_loc(rows, label) ==
    LET at == {i \in 1..Len(rows) : rows[i].Date = label}
    IN  IF Cardinality(at) = 1
        THEN [t |-> "int", i |-> CHOOSE i \in at : TRUE]
        ELSE [t |-> "slice", i |-> 0]

\* an exit one bar early: the entry bar counted as the first held bar
exit_date_idx_early(i, hp, n) == Min(i + hp - 1, n)

\* min(get_loc(breakout_day) + holding_period, len(df) - 1), as a row number
exit_date_idx(i, hp, n) == Min(i + hp, n)

\* (exit_price - entry_price) / entry_price * 100
trade_return(entry_price, exit_price) ==
    Times(Div(Sub(exit_price, entry_price), entry_price), 100)

\* the dict appended for the breakout on row i
Trade(rows, ratio, i, hp) ==
    LET x == exit_date_idx(i, hp, Len(rows))
        entry_price == Price(rows[i].Close)
        exit_price == Price(rows[x].Close)
    IN  [Entry_Date   |-> strftime(rows[i].Date),
         Entry_Price  |-> Round2(entry_price),
         Exit_Date    |-> strftime(rows[x].Date),
         Exit_Price   |-> Round2(exit_price),
         Return_Pct   |-> Round2(trade_return(entry_price, exit_price)),
         Volume_Ratio |-> Round2(ratio[i])]

----------------------------------------------------------------------------
(* What Streamlit shows.                                                   *)

Shown(kind, text, label) == [k |-> kind, m |-> text, d |-> label]

FetchError == Shown("error", "Error fetching data", 0)
NoDataError == Shown("error", "No data available for the selected date range.", 0)
RowWarning(label) == Shown("warning", "Could not calculate returns for breakout on", label)
NoBreakoutWarning ==
    Shown("warning", "No breakout conditions found for the given parameters.", 0)
Report ==
    << Shown("subheader", "Summary Statistics", 0),
       Shown("dataframe", "summary_stats", 0),
       Shown("subheader", "Detailed Trade Results", 0),
       Shown("dataframe", "results_df", 0),
       Shown("plotly_chart", "Distribution of Returns", 0),
       Shown("download_button", "Download Results CSV", 0) >>

NoFrame == [kind |-> "unset", rows |-> <<>>]
NoSummary == [kind |-> "unset"]

----------------------------------------------------------------------------
(* create_summary_stats, lines 98-128.  results is a list of trade dicts   *)
(* whose Return_Pct are finite (hundredths: Num(h, 100)).                  *)

RECURSIVE SumOf(_, _)
SumOf(f, n) == IF n = 0 THEN 0 ELSE f[n] + SumOf(f, n - 1)

\* Series.std(): the sample standard deviation (ddof = 1) of the values
\* h[i]/100, rounded to 2 places; NaN for fewer than two values
StdRounded(h) ==
    LET n == Len(h)
        s == SumOf(h, n)
        m == n * SumOf([i \in 1..n |-> h[i] * h[i]], n) - s * s
        c == n * (n - 1)
        hi == CHOOSE a \in {h[i] : i \in 1..n} : \A i \in 1..n : h[i] <= a
        lo == CHOOSE a \in {h[i] : i \in 1..n} : \A i \in 1..n : h[i] >= a
    IN  IF n < 2 THEN NaN
        ELSE Num(CHOOSE r \in 0..(hi - lo + 1) :
                    /\ 4 * m < (2 * r + 1) * (2 * r + 1) * c
                    /\ r = 0 \/ (2 * r - 1) * (2 * r - 1) * c <= 4 * m, 100)

\* lines 119-128: the metrics of a non-empty list, each rounded to 2 places
summary(results) ==
    LET n == Len(results)
        h == [i \in 1..n |-> Hundredths(results[i].Return_Pct)]
    IN  [Total_Trades   |-> Round2(Num(n, 1)),
         Win_Rate       |-> Round2(Num(100 * Cardinality({i \in 1..n : h[i] > 0}), n)),
         Average_Return |-> Round2(Num(SumOf(h, n), 100 * n)),
         Max_Return     |-> Round2(Num(CHOOSE a \in {h[i] : i \in 1..n} :
                                           \A i \in 1..n : h[i] <= a, 100)),
         Min_Return     |-> Round2(Num(CHOOSE a \in {h[i] : i \in 1..n} :
                                           \A i \in 1..n : h[i] >= a, 100)),
         Std_Dev        |-> Round2(StdRounded(h))]

\* what pandas computes over an empty Return_Pct column: a count of 0 and
\* NaN for every mean, extremum and deviation
create_summary_stats_unguarded(results) ==
    IF Len(results) = 0
    THEN [Total_Trades   |-> Num(0, 1),
          Win_Rate       |-> NaN,
          Average_Return |-> NaN,
          Max_Return     |-> NaN,
          Min_Return     |-> NaN,
          Std_Dev        |-> NaN]
    ELSE summary(results)

create_summary_stats(results) ==
    IF Len(results) = 0
    THEN [Total_Trades   |-> Num(0, 1),
          Win_Rate       |-> Num(0, 1),
          Average_Return |-> Num(0, 1),
          Max_Return     |-> Num(0, 1),
          Min_Return     |-> Num(0, 1),
          Std_Dev        |-> Num(0, 1)]
    ELSE summary(results)

----------------------------------------------------------------------------
(* The script's run after 'Generate Report' is pressed, lines 154-194.     *)

Init ==
    /\ pc = "fetch"
    /\ ret = "report"
    /\ start_date \in StartDates
    /\ end_date \in {start_date + w : w \in WindowDays}
    /\ volume_threshold \in VolumeThresholds
    /\ price_threshold \in PriceThresholds
    /\ holding_period \in 1..MaxHold
    /\ df = NoFrame
    /\ Volume_MA20 = <<>>
    /\ Daily_Return = <<>>
    /\ Volume_Ratio = <<>>
    /\ breakout_days = <<>>
    /\ k = 0
    /\ breakout_results = <<>>
    /\ results_df = <<>>
    /\ out = <<>>
    /\ summary_stats = NoSummary
    /\ calls = 0
    /\ first_results = <<>>
    /\ df_orig = <<>>

\* line 156 and lines 25-33: the fetch returns a history (possibly of zero
\* bars), or raises and the handler reports it and returns None
get_stock_data ==
    /\ pc = "fetch"
    /\ \/ /\ \E rows \in Histories(start_date - LookbackDays, end_date) \cup {<<>>} :
                df' = [kind |-> "DataFrame", rows |-> rows]
          /\ out' = out
       \/ /\ df' = [kind |-> "None", rows |-> <<>>]
          /\ out' = Append(out, FetchError)
    /\ pc' = "check"
    /\ UNCHANGED <<ret, start_date, end_date, volume_threshold, price_threshold,
                   holding_period, Volume_MA20, Daily_Return, Volume_Ratio,
                   breakout_days, k, breakout_results, results_df, summary_stats,
                   calls, first_results, df_orig>>

\* line 158 with its else branch, lines 193-194
check_data ==
    /\ pc = "check"
    /\ IF df.kind # "None" /\ df.rows # <<>>
       THEN /\ pc' = "analyze"
            /\ out' = out
       ELSE /\ pc' = "done"
            /\ out' = Append(out, NoDataError)
    /\ UNCHANGED <<ret, start_date, end_date, volume_threshold, price_threshold,
                   holding_period, df, Volume_MA20, Daily_Return, Volume_Ratio,
                   breakout_days, k, breakout_results, results_df, summary_stats,
                   calls, first_results, df_orig>>

\* a list that outlives the call: the trades of an earlier call stay in it
empty_results_stale(previous) == previous

\* breakout_results = [], line 62: a new list on every call
empty_results(previous) == <<>>

\* 'break' in the handler: the first fault ends the loop
after_except_break(j, n) == n + 1

\* 'continue' at line 94: the loop goes on with the next breakout day
after_except(j, n) == j + 1

\* one position at a time: a breakout is dropped while the last trade is open
append_trade_flat(results, trade) ==
    IF results # <<>> /\ results[Len(results)].Exit_Date >= trade.Entry_Date
    THEN results
    ELSE Append(results, trade)

\* breakout_results.append({...}), line 84
append_trade(results, trade) == Append(results, trade)

\* lines 48-65: the three columns are written into df, the flagged days taken
analyze_breakouts ==
    /\ pc = "analyze"
    /\ LET rows == df.rows
           n == Len(rows)
           ma == [i \in 1..n |-> RollingMean(rows, i)]
           dret == [i \in 1..n |-> PctChange(rows, i)]
           ratio == [i \in 1..n |-> VolumeRatio(rows, ma, i)]
           flags == [i \in 1..n |->
                       breakout_condition(ratio, dret, volume_threshold,
                                          price_threshold, i)]
       IN  /\ Volume_MA20' = ma
           /\ Daily_Return' = dret
           /\ Volume_Ratio' = ratio
           /\ breakout_days' = SelectRows(rows, flags, n)
    /\ breakout_results' = empty_results(breakout_results)
    /\ k' = 1
    /\ pc' = "loop"
    /\ UNCHANGED <<ret, start_date, end_date, volume_threshold, price_threshold,
                   holding_period, df, results_df, out, summary_stats, calls,
                   first_results, df_orig>>

\* lines 68-94: one iteration of the loop over breakout_days
analyze_loop ==
    /\ pc = "loop"
    /\ k <= Len(breakout_days)
    /\ LET breakout_day == breakout_days[k]
           loc == get_loc(df.rows, breakout_day)
       IN  IF loc.t = "int"
           THEN /\ breakout_results' =
                      append_trade(breakout_results,
                                   Trade(df.rows, Volume_Ratio, loc.i, holding_period))
                /\ out' = out
                /\ k' = k + 1
           ELSE \* slice + int raises TypeError, caught at line 92
                /\ breakout_results' = breakout_results
                /\ out' = Append(out, RowWarning(breakout_day))
                /\ k' = after_except(k, Len(breakout_days))
    /\ UNCHANGED <<pc, ret, start_date, end_date, volume_threshold, price_threshold,
                   holding_period, df, Volume_MA20, Daily_Return, Volume_Ratio,
                   breakout_days, results_df, summary_stats, calls,
                   first_results, df_orig>>

\* line 96
analyze_return ==
    /\ pc = "loop"
    /\ k > Len(breakout_days)
    /\ results_df' = breakout_results
    /\ calls' = calls + 1
    /\ pc' = ret
    /\ UNCHANGED <<ret, start_date, end_date, volume_threshold, price_threshold,
                   holding_period, df, Volume_MA20, Daily_Return, Volume_Ratio,
                   breakout_days, k, breakout_results, out, summary_stats,
                   first_results, df_orig>>

\* lines 162-192: the report, or the warning of the else branch
render_report ==
    /\ pc = "report"
    /\ IF results_df # <<>>
       THEN /\ summary_stats' = create_summary_stats(results_df)
            /\ out' = out \o Report
       ELSE /\ summary_stats' = summary_stats
            /\ out' = Append(out, NoBreakoutWarning)
    /\ pc' = "done"
    /\ UNCHANGED <<ret, start_date, end_date, volume_threshold, price_threshold,
                   holding_period, df, Volume_MA20, Daily_Return, Volume_Ratio,
                   breakout_days, k, breakout_results, results_df, calls,
                   first_results, df_orig>>

Next ==
    \/ get_stock_data
    \/ check_data
    \/ analyze_breakouts
    \/ analyze_loop
    \/ analyze_return
    \/ render_report

Spec == Init /\ [][Next]_vars

----------------------------------------------------------------------------
(* analyze_breakouts called twice on one DataFrame with the same           *)
(* parameters: the second call receives df as the first call left it.      *)

InitTwice ==
    /\ pc = "analyze"
    /\ ret = "again"
    /\ start_date \in StartDates
    /\ end_date \in {start_date + w : w \in WindowDays}
    /\ volume_threshold \in VolumeThresholds
    /\ price_threshold \in PriceThresholds
    /\ holding_period \in 1..MaxHold
    /\ \E rows \in Histories(start_date - LookbackDays, end_date) :
          /\ df = [kind |-> "DataFrame", rows |-> rows]
          /\ df_orig = rows
    /\ Volume_MA20 = <<>>
    /\ Daily_Return = <<>>
    /\ Volume_Ratio = <<>>
    /\ breakout_days = <<>>
    /\ k = 0
    /\ breakout_results = <<>>
    /\ results_df = <<>>
    /\ out = <<>>
    /\ summary_stats = NoSummary
    /\ calls = 0
    /\ first_results = <<>>

\* the first call has returned: keep its result and call again
second_call ==
    /\ pc = "again"
    /\ first_results' = results_df
    /\ ret' = "done"
    /\ pc' = "analyze"
    /\ UNCHANGED <<start_date, end_date, volume_threshold, price_threshold,
                   holding_period, df, Volume_MA20, Daily_Return, Volume_Ratio,
                   breakout_days, k, breakout_results, results_df, out,
                   summary_stats, calls, df_orig>>

NextTwice ==
    \/ analyze_breakouts
    \/ analyze_loop
    \/ analyze_return
    \/ second_call

SpecTwice == InitTwice /\ [][NextTwice]_vars

----------------------------------------------------------------------------
(* create_summary_stats applied to a trade list.                           *)

TradeWith(r) ==
    [Entry_Date   |-> 0,
     Entry_Price  |-> Num(0, 1),
     Exit_Date    |-> 0,
     Exit_Price   |-> Num(0, 1),
     Return_Pct   |-> Num(r, 100),
     Volume_Ratio |-> Num(0, 1)]

TradeLists ==
    UNION {[1..n -> {TradeWith(r) : r \in ReturnChoices}] : n \in 0..MaxTrades}

InitSummary ==
    /\ pc = "summary"
    /\ ret = "done"
    /\ start_date = 0
    /\ end_date = 0
    /\ volume_threshold = 0
    /\ price_threshold = 0
    /\ holding_period = 0
    /\ df = NoFrame
    /\ df_orig = <<>>
    /\ Volume_MA20 = <<>>
    /\ Daily_Return = <<>>
    /\ Volume_Ratio = <<>>
    /\ breakout_days = <<>>
    /\ k = 0
    /\ breakout_results = <<>>
    /\ results_df \in TradeLists
    /\ out = <<>>
    /\ summary_stats = NoSummary
    /\ calls = 0
    /\ first_results = <<>>

call_summary ==
    /\ pc = "summary"
    /\ summary_stats' = create_summary_stats(results_df)
    /\ pc' = "done"
    /\ UNCHANGED <<ret, start_date, end_date, volume_threshold, price_threshold,
                   holding_period, df, Volume_MA20, Daily_Return, Volume_Ratio,
                   breakout_days, k, breakout_results, results_df, out, calls,
                   first_results, df_orig>>

NextSummary == call_summary

SpecSummary == InitSummary /\ [][NextSummary]_vars

----------------------------------------------------------------------------
(* Properties.                                                             *)

Rows == df.rows
N == Len(df.rows)

\* the three columns have been written for the rows of df
Analysed == N > 0 /\ Len(Volume_Ratio) = N

\* analyze_breakouts has returned
Returned == Analysed /\ pc \notin {"analyze", "loop"}

\* no other row carries row i's Timestamp
UniqueDate(i) == \A j \in 1..N : j # i => Rows[j].Date # Rows[i].Date

\* the breakout predicate of row i in integers: 20 bars in the window, a
\* previous bar, a non-zero window sum, and both ratios strictly above
\* their thresholds
Flagged(i) ==
    /\ i >= Window
    /\ i >= 2
    /\ SumVolume(Rows, i - Window + 1, i) > 0
    /\ 100 * Window * Rows[i].Volume > volume_threshold * SumVolume(Rows, i - Window + 1, i)
    /\ 100 * (Rows[i].Close - Rows[i - 1].Close) > price_threshold * Rows[i - 1].Close

FlaggedRows == {i \in 1..N : Flagged(i)}

RowWarnings == {j \in 1..Len(out) : out[j].k = "warning" /\ out[j].m = RowWarning(0).m}

ReportShown == \E j \in 1..Len(out) : out[j].k \in {"subheader", "dataframe", "plotly_chart", "download_button"}

\* the Trade of row i computed from row i, the exit row and the window alone
TradeOfRow(i) ==
    LET x == IF i + holding_period <= N THEN i + holding_period ELSE N
    IN  [Entry_Date   |-> strftime(Rows[i].Date),
         Entry_Price  |-> Round2(Num(Rows[i].Close, 1000)),
         Exit_Date    |-> strftime(Rows[x].Date),
         Exit_Price   |-> Round2(Num(Rows[x].Close, 1000)),
         Return_Pct   |-> Round2(Num(100 * (Rows[x].Close - Rows[i].Close), Rows[i].Close)),
         Volume_Ratio |-> Round2(Num(Window * Rows[i].Volume,
                                     SumVolume(Rows, i - Window + 1, i)))]

IsZero(a) == a.t = "num" /\ a.n = 0

\* C1: every Trade produced from the flagged row i exits on the bar
\* min(i + holding_period, last): the exit row is within the series, the exit
\* date and the (reported, rounded) exit price are that bar's, and a breakout
\* on the last row exits on its own bar with a return of 0.
C1_ExitClamped ==
    Analysed =>
        \A j \in 1..Len(breakout_results) :
            LET t == breakout_results[j]
                from == {i \in FlaggedRows : strftime(Rows[i].Date) = t.Entry_Date}
            IN  /\ from # {}
                /\ \A i \in from :
                      LET x == IF i + holding_period <= N THEN i + holding_period ELSE N
                      IN  /\ x <= N
                          /\ t.Exit_Date = strftime(Rows[x].Date)
                          /\ t.Exit_Price = Round2(Num(Rows[x].Close, 1000))
                          /\ i = N => /\ t.Exit_Date = t.Entry_Date
                                      /\ IsZero(t.Return_Pct)

\* a breakout on the last row of the series has produced its Trade
C1_Witness ==
    /\ Analysed
    /\ \E j \in 1..Len(breakout_results) :
          /\ breakout_results[j].Entry_Date = strftime(Rows[N].Date)
          /\ N \in FlaggedRows

\* C2: the flagged days are exactly the rows with a defined volume ratio and
\* daily return, both strictly above their thresholds; volume_ma20 is
\* undefined on the first 19 rows, the ratio is undefined where the average is
\* undefined or zero, such rows and the first row are never flagged, a series
\* of fewer than 20 bars yields no Trade, and no reported Volume_Ratio is
\* infinite or NaN.
C2_FlaggedIffBothAbove ==
    Analysed =>
        /\ breakout_days = [j \in 1..Cardinality(FlaggedRows) |->
                               Rows[Ascending(FlaggedRows)[j]].Date]
        /\ \A i \in 1..N :
              /\ (Volume_MA20[i].t = "nan") <=> (i < Window)
              /\ (Volume_Ratio[i].t # "num") <=>
                     (Volume_MA20[i].t = "nan" \/ IsZero(Volume_MA20[i]))
              /\ (Daily_Return[i].t = "nan") <=> (i = 1)
              /\ (Volume_Ratio[i].t # "num" \/ i = 1) => ~Flagged(i)
              /\ Flagged(i) <=> /\ Volume_Ratio[i].t = "num"
                                /\ Daily_Return[i].t = "num"
                                /\ Volume_Ratio[i].n * 100 > volume_threshold * Volume_Ratio[i].d
                                /\ Daily_Return[i].n * 100 > price_threshold * Daily_Return[i].d
        /\ N < Window => breakout_days = <<>> /\ breakout_results = <<>>
        /\ \A j \in 1..Len(breakout_results) : breakout_results[j].Volume_Ratio.t = "num"

\* a run with a Trade and a row whose 20-day average volume is zero
C2_Witness ==
    /\ pc = "done"
    /\ Analysed
    /\ results_df # <<>>
    /\ \E i \in Window..N : IsZero(Volume_MA20[i]) /\ Rows[i].Close > Rows[i - 1].Close

\* C3: every flagged row processed so far has ended in exactly one outcome,
\* one Trade or one warning naming its date; a fault does not end the loop,
\* so when analyze_breakouts returns, Trades plus warnings equal the flagged
\* rows.
C3_TradeOrWarning ==
    Analysed =>
        LET done == IF pc = "loop" THEN k - 1 ELSE Len(breakout_days)
            labels == {breakout_days[j] : j \in 1..done}
        IN  /\ pc = "loop" => k <= Len(breakout_days) + 1
            /\ Len(breakout_results) + Cardinality(RowWarnings) = done
            /\ pc # "loop" => done = Cardinality(FlaggedRows)
            /\ \A d \in labels :
                  LET rows == Cardinality({j \in 1..done : breakout_days[j] = d})
                      trades == Cardinality({j \in 1..Len(breakout_results) :
                                    breakout_results[j].Entry_Date = strftime(d)})
                      warned == Cardinality({j \in RowWarnings : out[j].d = d})
                  IN  \/ trades = rows /\ warned = 0
                      \/ warned = rows /\ trades = 0
            /\ \A j \in RowWarnings : out[j].d \in labels

\* a flagged row was skipped with a warning and a later flagged row traded
C3_Witness ==
    /\ pc = "done"
    /\ \E w \in RowWarnings : \E j \in 1..Len(results_df) :
          results_df[j].Entry_Date > strftime(out[w].d)

\* C4: for a list of exactly one trade with return r, the summary is
\* total_trades = 1, average = max = min = r, win_rate = 100 when r > 0 and 0
\* otherwise, and std_dev = 0.
C4_SingleTradeSummary ==
    (pc = "done" /\ Len(results_df) = 1) =>
        LET r == results_df[1].Return_Pct
        IN  /\ summary_stats.Total_Trades = Num(1, 1)
            /\ summary_stats.Average_Return = r
            /\ summary_stats.Max_Return = r
            /\ summary_stats.Min_Return = r
            /\ summary_stats.Win_Rate = (IF r.n > 0 THEN Num(100, 1) ELSE Num(0, 1))
            /\ IsZero(summary_stats.Std_Dev)

\* C5: a failed fetch is reported exactly once, as a fetch error and not as
\* the 'no data' error, and the run aborts: analyze_breakouts and
\* create_summary_stats are not invoked and nothing is rendered.
C5_FetchFailureReportedOnce ==
    (pc = "done" /\ df.kind = "None") =>
        /\ out = <<FetchError>>
        /\ \A j \in 1..Len(out) : out[j] # NoDataError
        /\ calls = 0
        /\ summary_stats = NoSummary
        /\ ~ReportShown

C7_IndependentTrades ==
    Returned =>
        /\ \A a, b \in 1..Len(results_df) :
              a < b => results_df[a].Entry_Date < results_df[b].Entry_Date
        /\ \A i \in FlaggedRows :
              UniqueDate(i) =>
                  Cardinality({j \in 1..Len(results_df) :
                                  results_df[j] = TradeOfRow(i)}) = 1
        /\ Len(results_df) = Cardinality({i \in FlaggedRows : UniqueDate(i)})

\* two Trades entered on consecutive rows, the first still open at the second
C7_Witness ==
    /\ Returned
    /\ \E a, b \in 1..Len(results_df) :
          /\ a < b
          /\ \E i \in 1..(N - 1) :
                /\ results_df[a].Entry_Date = strftime(Rows[i].Date)
                /\ results_df[b].Entry_Date = strftime(Rows[i + 1].Date)
          /\ results_df[a].Exit_Date >= results_df[b].Entry_Date

\* C8: the second of two calls on the same DataFrame and parameters returns
\* the list the first returned, and no call changes the date, open, high,
\* low, close or volume of a bar.
C8_SecondCallIdentical ==
    /\ df.rows = df_orig
    /\ (pc = "done" /\ calls = 2) => results_df = first_results

\* both calls have returned a non-empty list
C8_Witness ==
    /\ pc = "done"
    /\ calls = 2
    /\ first_results # <<>>
    /\ results_df # <<>>

\* C9: for an empty list, create_summary_stats returns a summary whose six
\* fields are all 0.
C9_EmptySummaryAllZero ==
    (pc = "done" /\ results_df = <<>>) =>
        /\ DOMAIN summary_stats = {"Total_Trades", "Win_Rate", "Average_Return",
                                   "Max_Return", "Min_Return", "Std_Dev"}
        /\ \A f \in DOMAIN summary_stats : IsZero(summary_stats[f])

\* create_summary_stats has returned for an empty list
C9_Witness ==
    /\ pc = "done"
    /\ results_df = <<>>
    /\ summary_stats # NoSummary

\* C10: every Trade of a run's report has entry_date >= start_date.
C10_NoTradeInLookback ==
    (pc = "done" /\ ReportShown) =>
        \A j \in 1..Len(results_df) : results_df[j].Entry_Date >= start_date

====
